---- MODULE Spec2Model ----
(***************************************************************************)
(* n8n-nodes-rlusd: the XRPL client's connection handling, the trigger     *)
(* node's subscription life cycle and event filters on both ledgers, the   *)
(* operation node's item loop, and the limit-order builder.                *)
(*                                                                         *)
(* The libraries the code calls (xrpl.js Client, ethers provider and       *)
(* contract) are the environment: every awaited call is a step of its own  *)
(* that the environment completes with success or failure.                 *)
(***************************************************************************)
EXTENDS Integers, Sequences, FiniteSets, TLC

(* ------------------------------ bounds -------------------------------- *)

\* Raw events the ledgers produce in one run.
MaxEvents == 2
\* Largest double an amount string parses to.
MaxAmount == 2
\* Calls of the trigger's close function in one run.
MaxStops == 2
\* Input items of one execute call.
MaxItems == 2
\* Largest order amount and price (whole display units).
MaxQty == 6

\* Write operations called on the clients in one behaviour.
MaxCalls == 2

\* Largest limit passed to getRlusdXrpOrderBook.
MaxLimit == 2

\* Offers a book_offers response may carry.
MaxOffers == 3

\* Largest drops amount taken through dropsToXrp and back.
MaxDrops == 300

(* ----------------------------- constants ------------------------------ *)

RLUSD_CURRENCY_CODE == "RLUSD"

\* xrpToDrops multiplies by this factor.
DROPS_PER_XRP == 1000000

Networks == {"xrpl_mainnet", "ethereum_mainnet"}

TransferKinds == {"transfer", "transferTo", "transferFrom", "largeTransfer"}

Events == TransferKinds \cup {"newLedger", "newBlock"}

\* Ethereum addresses: "a" and "A" differ only in letter case (hex digits),
\* "b" is another account.
Addresses == {"a", "A", "b"}

\* XRPL addresses: the watched account and another one.
XrplAddresses == {"A", "b"}

\* The watch address parameter: empty (the default) or an address.
WatchAddresses == {"", "A"}

\* String.prototype.toLowerCase on the addresses above.
toLowerCase(s) == IF s = "A" THEN "a" ELSE s

(* ------------------------------ amounts ------------------------------- *)

(* An amount arrives as a decimal string (amount.value on the XRPL,        *)
(* formatUnits(v, 18) on Ethereum) that may carry more digits than a       *)
(* double holds.  It is modelled by the double nearest to it, k, and the   *)
(* sign eps of (exact value - k): "0.999999999999999999" is k = 1,         *)
(* eps = -1.                                                               *)
AmountStrings == [k : 1..MaxAmount, eps : {-1, 0, 1}]

\* amount.value of an XRPL message carries at most 16 significant digits;
\* at the magnitudes modelled a double holds them all.
XrplAmountStrings == {v \in AmountStrings : v.eps = 0}

\* parseFloat: the nearest double.
parseFloat(v) == v.k

\* The exact decimal value of the string v against the double t.
ExactlyAtLeast(v, t) == v.k > t \/ (v.k = t /\ v.eps >= 0)

ExactlyAbove(v, t) == v.k > t \/ (v.k = t /\ v.eps > 0)

(* --------------------------- state variables --------------------------- *)

VARIABLES
    pc,                 \* per task: position inside an XrplClient network call
    req,                \* per task: the command of its client.request
    isConnected,        \* XrplClient.isConnected
    connOpen,           \* the underlying xrpl.js connection is open
    connOpens,          \* client.connect() calls that opened since the last disconnect
    lastDone,           \* the latest awaited client.connect() / disconnect() to complete
    srvLedger,          \* server side: this connection subscribed the ledger stream
    srvAccount,         \* server side: this connection subscribed the watched account
    onLedgerClosed,     \* client.on('ledgerClosed', callback) registered
    onTransaction,      \* client.on('transaction', callback) registered
    providerSubs,       \* ethers provider: live subscriptions
    nContracts,         \* Contract objects getReadContract() has created
    contractListeners,  \* Contract objects holding a 'Transfer' listener
    tcfg,               \* the trigger's parameters and credentials
    tphase,             \* the trigger's life cycle
    stopCalls,          \* calls of the close function so far
    nRaw,               \* raw events the ledgers produced so far
    last,               \* the latest raw event and what became of it
    sink,               \* this.emit: sequence numbers of the forwarded events
    ecfg,               \* execute: operation, items, continueOnFail
    ephase,             \* execute's position
    itemIndex,          \* execute's loop variable i (1-based)
    returnData,         \* execute's returnData
    execError,          \* the NodeOperationError execute threw: its itemIndex (1-based)
    orderIn,            \* placeLimitOrder parameters
    orderOut,           \* the OfferCreate payload handed to submitTransaction
    hasWallet,          \* a signing credential is loaded (this.wallet / this.contract)
    wcall,              \* the write operation in progress and its options
    wphase,             \* the write operation's position
    wlog,               \* network actions the current write operation has started
    werror,             \* the error the current write operation threw
    outcomes,           \* the outcome records write operations have returned
    nCalls,             \* write operations called so far
    bookIn,             \* getRlusdXrpOrderBook: limit and the two server responses
    bookOut,            \* getRlusdXrpOrderBook: what it returned
    bestOut,            \* getBestBidAsk: what execute put in the item's result
    fnIn,               \* a utility function and its arguments
    fnOut               \* what the utility function returned

clientVars == <<pc, req, isConnected, connOpen, connOpens, lastDone, srvLedger, srvAccount,
                onLedgerClosed, onTransaction>>

ethVars == <<providerSubs, nContracts, contractListeners>>

triggerVars == <<tcfg, tphase, stopCalls, nRaw, last, sink>>

execVars == <<ecfg, ephase, itemIndex, returnData, execError>>

orderVars == <<orderIn, orderOut>>

writeVars == <<hasWallet, wcall, wphase, wlog, werror, outcomes, nCalls>>

bookVars == <<bookIn, bookOut, bestOut>>

utilVars == <<fnIn, fnOut>>

restVars == <<writeVars, bookVars, utilVars>>

vars == <<clientVars, ethVars, triggerVars, execVars, orderVars, restVars>>

\* What a step of the XRPL client itself leaves alone.
nonClientVars == <<ethVars, triggerVars, execVars, orderVars, restVars>>

(* ------------------------------- tasks -------------------------------- *)

\* The two getOrderBook calls getRlusdXrpOrderBook starts for item i.
BookTasks(i) == {<<"bids", i>>, <<"asks", i>>}

AllBookTasks == UNION {BookTasks(i) : i \in 1..MaxItems}

\* The trigger's flow and execute's own flow.
Trig == <<"trig", 0>>

Exec == <<"exec", 0>>

\* The flow of a write operation called on the client.
Sub == <<"sub", 0>>

Tasks == {Trig, Exec, Sub} \cup AllBookTasks

(* ---------------------------- XrplClient ------------------------------ *)

\* connect(), up to its await: the next position of a caller that has just
\* called it.  With the flag set the caller goes on to its request.
AfterConnectCheck == IF isConnected THEN "request" ELSE "connecting"

\* await this.client.connect() resolves; the caller sets the flag and sends
\* its request.
ConnectResolve(t) ==
    /\ pc[t] = "connecting"
    /\ pc' = [pc EXCEPT ![t] = "request"]
    /\ isConnected' = TRUE
    /\ connOpen' = TRUE
    /\ connOpens' = connOpens + 1
    /\ lastDone' = "connect"
    /\ UNCHANGED <<req, srvLedger, srvAccount, onLedgerClosed, onTransaction>>
    /\ UNCHANGED nonClientVars

\* await this.client.connect() rejects: the flag stays false, the caller throws.
ConnectReject(t) ==
    /\ pc[t] = "connecting"
    /\ pc' = [pc EXCEPT ![t] = "err"]
    /\ lastDone' = "connectFailed"
    /\ UNCHANGED <<req, isConnected, connOpen, connOpens, srvLedger, srvAccount,
                   onLedgerClosed, onTransaction>>
    /\ UNCHANGED nonClientVars

\* client.request resolves: the server has answered on the open connection.
RequestResolve(t) ==
    /\ pc[t] = "request"
    /\ connOpen
    /\ pc' = [pc EXCEPT ![t] = "ok"]
    /\ srvLedger' = CASE req[t] = "subscribe_ledger" -> TRUE
                      [] req[t] = "unsubscribe" -> FALSE
                      [] OTHER -> srvLedger
    /\ srvAccount' = IF req[t] = "subscribe_account" THEN TRUE ELSE srvAccount
    /\ UNCHANGED <<req, isConnected, connOpen, connOpens, lastDone, onLedgerClosed, onTransaction>>
    /\ UNCHANGED nonClientVars

\* client.request rejects (not connected, server error, timeout).
RequestReject(t) ==
    /\ pc[t] = "request"
    /\ pc' = [pc EXCEPT ![t] = "err"]
    /\ UNCHANGED <<req, isConnected, connOpen, connOpens, lastDone, srvLedger, srvAccount,
                   onLedgerClosed, onTransaction>>
    /\ UNCHANGED nonClientVars

\* disconnect(), up to its await.
AfterDisconnectCheck == IF isConnected THEN "disconnecting" ELSE "disconnected"

\* await this.client.disconnect() resolves: the connection is closed, the
\* server forgets its subscriptions, the flag is cleared.
DisconnectResolve(t) ==
    /\ pc[t] = "disconnecting"
    /\ pc' = [pc EXCEPT ![t] = "disconnected"]
    /\ isConnected' = FALSE
    /\ connOpen' = FALSE
    /\ connOpens' = 0
    /\ lastDone' = "disconnect"
    /\ srvLedger' = FALSE
    /\ srvAccount' = FALSE
    /\ UNCHANGED <<req, onLedgerClosed, onTransaction>>
    /\ UNCHANGED nonClientVars

ClientInit ==
    /\ pc = [t \in Tasks |-> "idle"]
    /\ req = [t \in Tasks |-> "none"]
    /\ isConnected = FALSE
    /\ connOpen = FALSE
    /\ connOpens = 0
    /\ lastDone = "none"
    /\ srvLedger = FALSE
    /\ srvAccount = FALSE
    /\ onLedgerClosed = FALSE
    /\ onTransaction = FALSE

(* ------------------------------ trigger ------------------------------- *)

\* network.startsWith('xrpl') || network === 'custom'
IsXrplNetwork(n) == n \in {"xrpl_mainnet", "xrpl_testnet", "xrpl_devnet", "custom"}

\* network.startsWith('ethereum')
IsEthereumNetwork(n) == n \in {"ethereum_mainnet", "ethereum_sepolia"}

TriggerConfigs ==
    [network : Networks,
     event : Events,
     watchAddress : WatchAddresses,
     minAmount : {0, 2},
     largeTransferThreshold : {MaxAmount}]

\* threshold = event === 'largeTransfer' ? largeTransferThreshold : minAmount
threshold(cfg) ==
    IF cfg.event = "largeTransfer" THEN cfg.largeTransferThreshold ELSE cfg.minAmount

NoTx == [TransactionType |-> "none", Amount |-> [kind |-> "none"],
         Account |-> "", Destination |-> ""]

NoEvent == [src |-> "none", tx |-> NoTx, phase |-> "none", stops |-> 0,
            delivered |-> FALSE, fwd |-> FALSE]

\* Amount fields a transaction message can carry: an issued-currency object
\* of the tracked or of another currency, or a drops string.
TxAmounts ==
    {[kind |-> "issued", currency |-> RLUSD_CURRENCY_CODE, value |-> v] :
        v \in XrplAmountStrings}
    \cup {[kind |-> "issued", currency |-> "USD", value |-> [k |-> MaxAmount, eps |-> 0]]}
    \cup {[kind |-> "drops", value |-> [k |-> MaxAmount, eps |-> 0]]}

\* Transaction messages: payments of every amount, and an offer that names
\* the tracked currency.
XrplTxs ==
    [TransactionType : {"Payment"}, Amount : TxAmounts,
     Account : XrplAddresses, Destination : XrplAddresses]
    \cup [TransactionType : {"OfferCreate"},
          Amount : {[kind |-> "issued", currency |-> RLUSD_CURRENCY_CODE,
                     value |-> [k |-> MaxAmount, eps |-> 0]]},
          Account : XrplAddresses, Destination : XrplAddresses]

\* An ERC-20 Transfer log of the RLUSD contract, written like a payment.
TransferLog(from, to, value) ==
    [TransactionType |-> "Payment",
     Amount |-> [kind |-> "issued", currency |-> RLUSD_CURRENCY_CODE, value |-> value],
     Account |-> from, Destination |-> to]

isRlusdTransaction(tx) ==
    IF tx.TransactionType # "Payment" THEN FALSE
    ELSE tx.Amount.kind = "issued" /\ tx.Amount.currency = RLUSD_CURRENCY_CODE

\* parseFloat(amount.value), or 0 for anything but the tracked currency.
extractRlusdAmount(tx) ==
    IF tx.Amount.kind = "issued" /\ tx.Amount.currency = RLUSD_CURRENCY_CODE
    THEN parseFloat(tx.Amount.value)
    ELSE 0

\* The 'transaction' callback startTrigger hands to subscribeAccount.
XrplTransferForwards(cfg, tx) ==
    /\ isRlusdTransaction(tx)
    /\ extractRlusdAmount(tx) >= threshold(cfg)

\* matchesAddress with the event kind left out of the test: either
\* counterparty matching the watch address lets the event through.
matchesAddressAnyKind(event, watchAddress, from, to) ==
    \/ watchAddress = ""
    \/ toLowerCase(from) = toLowerCase(watchAddress)
    \/ toLowerCase(to) = toLowerCase(watchAddress)

\* matchesAddress in the callback startTrigger hands to onTransfer.
matchesAddress(event, watchAddress, from, to) ==
    \/ watchAddress = ""
    \/ (event = "transferTo" /\ toLowerCase(to) = toLowerCase(watchAddress))
    \/ (event = "transferFrom" /\ toLowerCase(from) = toLowerCase(watchAddress))
    \/ (event = "transfer"
         /\ (toLowerCase(from) = toLowerCase(watchAddress)
              \/ toLowerCase(to) = toLowerCase(watchAddress)))

\* The 'Transfer' callback: matchesAddress && amount >= threshold.
EthTransferForwards(cfg, from, to, value) ==
    /\ matchesAddress(cfg.event, cfg.watchAddress, from, to)
    /\ parseFloat(value) >= threshold(cfg)

TriggerInit ==
    /\ tcfg \in TriggerConfigs
    /\ tphase = "created"
    /\ stopCalls = 0
    /\ nRaw = 0
    /\ last = NoEvent
    /\ sink = <<>>

EthInit ==
    /\ providerSubs = {}
    /\ nContracts = 0
    /\ contractListeners = {}

\* startTrigger on the XRPL: subscribeLedger or subscribeAccount begins with
\* connect(); with no watch address a transfer kind subscribes nothing.
StartTriggerXrpl ==
    /\ tphase = "created"
    /\ IsXrplNetwork(tcfg.network)
    /\ IF tcfg.event = "newLedger"
          \/ (tcfg.event \in TransferKinds /\ tcfg.watchAddress # "")
       THEN /\ pc' = [pc EXCEPT ![Trig] = AfterConnectCheck]
            /\ req' = [req EXCEPT ![Trig] =
                          IF tcfg.event = "newLedger" THEN "subscribe_ledger"
                          ELSE "subscribe_account"]
            /\ tphase' = "subscribing"
       ELSE /\ tphase' = "active"
            /\ UNCHANGED <<pc, req>>
    /\ UNCHANGED <<isConnected, connOpen, connOpens, lastDone, srvLedger, srvAccount,
                   onLedgerClosed, onTransaction>>
    /\ UNCHANGED <<ethVars, tcfg, stopCalls, nRaw, last, sink, execVars, orderVars, restVars>>

\* The subscribe request is confirmed: client.on registers the callback,
\* startTrigger returns and trigger() hands out the close function.
SubscribeConfirmed ==
    /\ tphase = "subscribing"
    /\ pc[Trig] = "ok"
    /\ pc' = [pc EXCEPT ![Trig] = "idle"]
    /\ onLedgerClosed' = (onLedgerClosed \/ req[Trig] = "subscribe_ledger")
    /\ onTransaction' = (onTransaction \/ req[Trig] = "subscribe_account")
    /\ tphase' = "active"
    /\ UNCHANGED <<req, isConnected, connOpen, connOpens, lastDone, srvLedger, srvAccount>>
    /\ UNCHANGED <<ethVars, tcfg, stopCalls, nRaw, last, sink, execVars, orderVars, restVars>>

\* A subscribe that registered its callback before awaiting the request.
SubscribeFailedRegistered ==
    /\ tphase = "subscribing"
    /\ pc[Trig] = "err"
    /\ pc' = [pc EXCEPT ![Trig] = "idle"]
    /\ onLedgerClosed' = (onLedgerClosed \/ req[Trig] = "subscribe_ledger")
    /\ onTransaction' = (onTransaction \/ req[Trig] = "subscribe_account")
    /\ tphase' = "startFailed"
    /\ UNCHANGED <<req, isConnected, connOpen, connOpens, lastDone, srvLedger, srvAccount>>
    /\ UNCHANGED <<ethVars, tcfg, stopCalls, nRaw, last, sink, execVars, orderVars, restVars>>

\* connect() or the subscribe request threw: startTrigger and trigger() reject.
SubscribeFailed ==
    /\ tphase = "subscribing"
    /\ pc[Trig] = "err"
    /\ pc' = [pc EXCEPT ![Trig] = "idle"]
    /\ tphase' = "startFailed"
    /\ UNCHANGED <<req, isConnected, connOpen, connOpens, lastDone, srvLedger, srvAccount,
                   onLedgerClosed, onTransaction>>
    /\ UNCHANGED <<ethVars, tcfg, stopCalls, nRaw, last, sink, execVars, orderVars, restVars>>

\* startTrigger on Ethereum: onBlock registers on the provider; onTransfer
\* registers on a Contract that getReadContract() creates for the call, which
\* subscribes its log filter on the provider.
StartTriggerEthereum ==
    /\ tphase = "created"
    /\ IsEthereumNetwork(tcfg.network)
    /\ CASE tcfg.event = "newBlock" ->
              /\ providerSubs' = providerSubs \cup {"block"}
              /\ UNCHANGED <<nContracts, contractListeners>>
         [] tcfg.event \in TransferKinds ->
              /\ nContracts' = nContracts + 1
              /\ contractListeners' = contractListeners \cup {nContracts + 1}
              /\ providerSubs' = providerSubs \cup {"Transfer"}
         [] OTHER -> UNCHANGED ethVars
    /\ tphase' = "active"
    /\ UNCHANGED <<clientVars, tcfg, stopCalls, nRaw, last, sink, execVars, orderVars, restVars>>

\* stopTrigger on the XRPL, up to its first await: unsubscribeAll sends the
\* unsubscribe request without connect().
StopTriggerXrpl ==
    /\ tphase \in {"active", "closed", "stopFailed"}
    /\ stopCalls < MaxStops
    /\ IsXrplNetwork(tcfg.network)
    /\ stopCalls' = stopCalls + 1
    /\ pc' = [pc EXCEPT ![Trig] = "request"]
    /\ req' = [req EXCEPT ![Trig] = "unsubscribe"]
    /\ tphase' = "unsubscribing"
    /\ UNCHANGED <<isConnected, connOpen, connOpens, lastDone, srvLedger, srvAccount,
                   onLedgerClosed, onTransaction>>
    /\ UNCHANGED <<ethVars, tcfg, nRaw, last, sink, execVars, orderVars, restVars>>

\* unsubscribeAll returned: stopTrigger calls disconnect().
UnsubscribeDone ==
    /\ tphase = "unsubscribing"
    /\ pc[Trig] = "ok"
    /\ pc' = [pc EXCEPT ![Trig] = IF isConnected THEN "disconnecting" ELSE "idle"]
    /\ tphase' = IF isConnected THEN "disconnecting" ELSE "closed"
    /\ UNCHANGED <<req, isConnected, connOpen, connOpens, lastDone, srvLedger, srvAccount,
                   onLedgerClosed, onTransaction>>
    /\ UNCHANGED <<ethVars, tcfg, stopCalls, nRaw, last, sink, execVars, orderVars, restVars>>

\* unsubscribeAll threw: stopTrigger rejects before it reaches disconnect().
UnsubscribeFailed ==
    /\ tphase = "unsubscribing"
    /\ pc[Trig] = "err"
    /\ pc' = [pc EXCEPT ![Trig] = "idle"]
    /\ tphase' = "stopFailed"
    /\ UNCHANGED <<req, isConnected, connOpen, connOpens, lastDone, srvLedger, srvAccount,
                   onLedgerClosed, onTransaction>>
    /\ UNCHANGED <<ethVars, tcfg, stopCalls, nRaw, last, sink, execVars, orderVars, restVars>>

\* disconnect() returned: stopTrigger is done.
StopTriggerDone ==
    /\ tphase = "disconnecting"
    /\ pc[Trig] = "disconnected"
    /\ pc' = [pc EXCEPT ![Trig] = "idle"]
    /\ tphase' = "closed"
    /\ UNCHANGED <<req, isConnected, connOpen, connOpens, lastDone, srvLedger, srvAccount,
                   onLedgerClosed, onTransaction>>
    /\ UNCHANGED <<ethVars, tcfg, stopCalls, nRaw, last, sink, execVars, orderVars, restVars>>

\* stopTrigger on Ethereum: removeAllListeners clears the provider's
\* subscriptions and the listeners of a Contract created for the call.
StopTriggerEthereum ==
    /\ tphase \in {"active", "closed"}
    /\ stopCalls < MaxStops
    /\ IsEthereumNetwork(tcfg.network)
    /\ stopCalls' = stopCalls + 1
    /\ providerSubs' = {}
    /\ nContracts' = nContracts + 1
    /\ contractListeners' = contractListeners \ {nContracts + 1}
    /\ tphase' = "closed"
    /\ UNCHANGED <<clientVars, tcfg, nRaw, last, sink, execVars, orderVars, restVars>>

(* ----------------------------- raw events ----------------------------- *)

\* A callback that emitted every forwarded event a second time.
RecordTwice(src, tx, delivered, fwd) ==
    /\ nRaw' = nRaw + 1
    /\ last' = [src |-> src, tx |-> tx, phase |-> tphase, stops |-> stopCalls,
                delivered |-> delivered, fwd |-> fwd]
    /\ sink' = IF fwd THEN sink \o <<nRaw + 1, nRaw + 1>> ELSE sink

\* What this.emit receives: the event is recorded and, when forwarded,
\* appended to the sink.
Record(src, tx, delivered, fwd) ==
    /\ nRaw' = nRaw + 1
    /\ last' = [src |-> src, tx |-> tx, phase |-> tphase, stops |-> stopCalls,
                delivered |-> delivered, fwd |-> fwd]
    /\ sink' = IF fwd THEN Append(sink, nRaw + 1) ELSE sink

\* A ledger closes.  The server pushes it on a connection that subscribed the
\* ledger stream; the client emits 'ledgerClosed' to the registered callback,
\* which forwards unconditionally.
XrplLedgerClosed ==
    /\ IsXrplNetwork(tcfg.network)
    /\ tphase # "created"
    /\ nRaw < MaxEvents
    /\ LET delivered == connOpen /\ srvLedger
       IN Record("ledgerClosed", NoTx, delivered, delivered /\ onLedgerClosed)
    /\ UNCHANGED <<clientVars, ethVars, tcfg, tphase, stopCalls, execVars, orderVars, restVars>>

\* A transaction is validated.  The server pushes it on a connection that
\* subscribed an account the transaction affects; the client emits
\* 'transaction' to the registered callback.
XrplTransaction ==
    /\ IsXrplNetwork(tcfg.network)
    /\ tcfg.event \in TransferKinds
    /\ tphase # "created"
    /\ nRaw < MaxEvents
    /\ \E tx \in XrplTxs :
         LET delivered == /\ connOpen
                          /\ srvAccount
                          /\ (tx.Account = tcfg.watchAddress
                                \/ tx.Destination = tcfg.watchAddress)
         IN Record("transaction", tx, delivered,
                   delivered /\ onTransaction /\ XrplTransferForwards(tcfg, tx))
    /\ UNCHANGED <<clientVars, ethVars, tcfg, tphase, stopCalls, execVars, orderVars, restVars>>

\* A block is produced; the provider calls the 'block' listeners it holds.
EthereumBlock ==
    /\ IsEthereumNetwork(tcfg.network)
    /\ tphase # "created"
    /\ nRaw < MaxEvents
    /\ LET delivered == "block" \in providerSubs
       IN Record("block", NoTx, delivered, delivered)
    /\ UNCHANGED <<clientVars, ethVars, tcfg, tphase, stopCalls, execVars, orderVars, restVars>>

\* The RLUSD contract logs a Transfer.  The provider hands it to the Contract
\* that subscribed the filter, whose listener calls the callback with
\* formatUnits(value, 18), the exact decimal string.
EthereumTransfer ==
    /\ IsEthereumNetwork(tcfg.network)
    /\ tcfg.event \in TransferKinds
    /\ tphase # "created"
    /\ nRaw < MaxEvents
    /\ \E from \in Addresses, to \in Addresses, value \in AmountStrings :
         LET delivered == "Transfer" \in providerSubs /\ contractListeners # {}
         IN Record("Transfer", TransferLog(from, to, value), delivered,
                   delivered /\ EthTransferForwards(tcfg, from, to, value))
    /\ UNCHANGED <<clientVars, ethVars, tcfg, tphase, stopCalls, execVars, orderVars, restVars>>

(* ------------------ execute and order: idle placeholders --------------- *)

ExecIdle ==
    /\ ecfg = [operation |-> "none", items |-> 0, continueOnFail |-> FALSE,
               addresses |-> <<>>]
    /\ ephase = "idle"
    /\ itemIndex = 1
    /\ returnData = <<>>
    /\ execError = [itemIndex |-> 0]

OrderIdle ==
    /\ orderIn = [side |-> "none", amount |-> 0, price |-> 0, wallet |-> FALSE]
    /\ orderOut = [TransactionType |-> "none"]

\* options.destinationTag left undefined.
NoTag == [given |-> FALSE, hi |-> 0, lo |-> 0]

\* No transaction built yet.
NoPayload == [TransactionType |-> "none", DestinationTag |-> NoTag]

NoCall == [op |-> "none", ledger |-> "none", tag |-> NoTag, tx |-> NoPayload]

WriteIdle ==
    /\ hasWallet = FALSE
    /\ wcall = NoCall
    /\ wphase = "idle"
    /\ wlog = <<>>
    /\ werror = "none"
    /\ outcomes = <<>>
    /\ nCalls = 0

BookIdle ==
    /\ bookIn = [limit |-> 0, bids |-> <<>>, asks |-> <<>>]
    /\ bookOut = [called |-> FALSE, bids |-> <<>>, asks |-> <<>>]
    /\ bestOut = [called |-> FALSE, limit |-> 0, bestBid |-> <<>>, bestAsk |-> <<>>]

UtilIdle ==
    /\ fnIn = [fn |-> "none"]
    /\ fnOut = [done |-> FALSE]

(* --------------------- specification: the trigger ---------------------- *)

InitTrigger ==
    ClientInit /\ EthInit /\ TriggerInit /\ ExecIdle /\ OrderIdle /\ WriteIdle /\ BookIdle /\ UtilIdle

NextTrigger ==
    \/ StartTriggerXrpl
    \/ SubscribeConfirmed
    \/ SubscribeFailed
    \/ StartTriggerEthereum
    \/ StopTriggerXrpl
    \/ UnsubscribeDone
    \/ UnsubscribeFailed
    \/ StopTriggerDone
    \/ StopTriggerEthereum
    \/ ConnectResolve(Trig)
    \/ ConnectReject(Trig)
    \/ RequestResolve(Trig)
    \/ RequestReject(Trig)
    \/ DisconnectResolve(Trig)
    \/ XrplLedgerClosed
    \/ XrplTransaction
    \/ EthereumBlock
    \/ EthereumTransfer

SpecTrigger == InitTrigger /\ [][NextTrigger]_vars

(* ------------------------------ execute ------------------------------- *)

\* One operation of each kind the loop can meet on the XRPL client: a single
\* request, the paired book queries, and one that needs no network.
ExecOperations == {"getAccountInfo", "getOrderBook", "convertDropsToXrp"}

\* The 'address' parameter of each item, read by compliance / checkAddress.
NoAddresses == [i \in 1..MaxItems |-> ""]

ExecConfigs ==
    [operation : ExecOperations, items : 1..MaxItems, continueOnFail : BOOLEAN,
     addresses : {NoAddresses}]
        \cup [operation : {"checkAddress"}, items : 1..MaxItems, continueOnFail : BOOLEAN,
              addresses : [1..MaxItems -> XrplAddresses]]

\* What an item pushes: { json: result } or { json: { error: message } }.
Result == [kind |-> "result"]

ErrorObject == [kind |-> "error"]

ExecTasks == {Exec} \cup AllBookTasks

ExecInit ==
    /\ ecfg \in ExecConfigs
    /\ ephase = "loop"
    /\ itemIndex = 1
    /\ returnData = <<>>
    /\ execError = [itemIndex |-> 0]

\* The loop after item i has pushed its result: the next item, or past the
\* loop `if (xrplClient) await xrplClient.disconnect()` and the return.
Advance(result) ==
    /\ returnData' = Append(returnData, [item |-> itemIndex, json |-> result])
    /\ UNCHANGED execError
    /\ IF itemIndex < ecfg.items
       THEN /\ itemIndex' = itemIndex + 1
            /\ ephase' = "loop"
            /\ pc' = [pc EXCEPT ![Exec] = "idle"]
       ELSE /\ itemIndex' = itemIndex
            /\ ephase' = IF isConnected THEN "finalDisconnect" ELSE "returned"
            /\ pc' = [pc EXCEPT ![Exec] = IF isConnected THEN "disconnecting" ELSE "idle"]

\* The item's catch with continueOnFail off: NodeOperationError leaves the
\* loop, the outer catch disconnects and rethrows.
Abort ==
    /\ ephase' = IF isConnected THEN "catchDisconnect" ELSE "thrown"
    /\ pc' = [pc EXCEPT ![Exec] = IF isConnected THEN "disconnecting" ELSE "idle"]
    /\ execError' = [itemIndex |-> itemIndex]
    /\ UNCHANGED <<itemIndex, returnData>>

\* A catch that ignored continueOnFail.
ItemFailedAborts == Abort

\* The item's catch.
ItemFailed == IF ecfg.continueOnFail THEN Advance(ErrorObject) ELSE Abort

execFrame == <<req, isConnected, connOpen, connOpens, lastDone, srvLedger, srvAccount,
               onLedgerClosed, onTransaction, ethVars, triggerVars, ecfg, orderVars, restVars>>

\* account / getInfo: getAccountInfo calls connect() and sends account_info.
ItemGetAccountInfo ==
    /\ ephase = "loop"
    /\ ecfg.operation = "getAccountInfo"
    /\ pc' = [pc EXCEPT ![Exec] = AfterConnectCheck]
    /\ req' = [req EXCEPT ![Exec] = "account_info"]
    /\ ephase' = "awaitCall"
    /\ UNCHANGED <<isConnected, connOpen, connOpens, lastDone, srvLedger, srvAccount,
                   onLedgerClosed, onTransaction>>
    /\ UNCHANGED <<ethVars, triggerVars, ecfg, itemIndex, returnData, execError, orderVars, restVars>>

\* dex / getOrderBook: getRlusdXrpOrderBook starts both getOrderBook calls
\* before it awaits; each calls connect() and reads the flag.
ItemGetOrderBook ==
    /\ ephase = "loop"
    /\ ecfg.operation = "getOrderBook"
    /\ pc' = [t \in Tasks |-> IF t \in BookTasks(itemIndex) THEN AfterConnectCheck
                              ELSE pc[t]]
    /\ req' = [t \in Tasks |-> IF t \in BookTasks(itemIndex) THEN "book_offers"
                               ELSE req[t]]
    /\ ephase' = "awaitAll"
    /\ UNCHANGED <<isConnected, connOpen, connOpens, lastDone, srvLedger, srvAccount,
                   onLedgerClosed, onTransaction>>
    /\ UNCHANGED <<ethVars, triggerVars, ecfg, itemIndex, returnData, execError, orderVars, restVars>>

\* utility / convertDropsToXrp: no client call.
ItemLocal ==
    /\ ephase = "loop"
    /\ ecfg.operation = "convertDropsToXrp"
    /\ Advance(Result)
    /\ UNCHANGED execFrame

\* Statuses the compliance service reports.
ComplianceStatuses == {"approved", "flagged"}

\* response.data of a successful check.
ComplianceData(address, status) ==
    [kind |-> "result", address |-> address, status |-> status, kycLevel |-> "full",
     amlRisk |-> "low", jurisdiction |-> "US", lastChecked |-> "server"]

\* The object checkCompliance builds in its catch.
UnverifiedResult(address) ==
    [kind |-> "result", address |-> address, status |-> "unknown", kycLevel |-> "none",
     amlRisk |-> "unknown", jurisdiction |-> "unknown", lastChecked |-> "now"]

\* A checkCompliance whose catch rethrew: the item's catch runs.
checkComplianceRethrows(address) == ItemFailed

\* checkCompliance's catch: the call returns, execute pushes the result.
checkComplianceCatch(address) == Advance(UnverifiedResult(address))

\* compliance / checkAddress: checkCompliance posts the address.
ItemCheckCompliance ==
    /\ ephase = "loop"
    /\ ecfg.operation = "checkAddress"
    /\ pc' = [pc EXCEPT ![Exec] = "post"]
    /\ ephase' = "awaitPost"
    /\ UNCHANGED <<req, isConnected, connOpen, connOpens, lastDone, srvLedger, srvAccount,
                   onLedgerClosed, onTransaction>>
    /\ UNCHANGED <<ethVars, triggerVars, ecfg, itemIndex, returnData, execError, orderVars, restVars>>

\* The HTTP request got a response.
PostResolve ==
    /\ ephase = "awaitPost"
    /\ pc[Exec] = "post"
    /\ pc' = [pc EXCEPT ![Exec] = "postOk"]
    /\ UNCHANGED <<req, isConnected, connOpen, connOpens, lastDone, srvLedger, srvAccount,
                   onLedgerClosed, onTransaction>>
    /\ UNCHANGED <<nonClientVars>>

\* The HTTP request failed: no response, a timeout, an error status.
PostReject ==
    /\ ephase = "awaitPost"
    /\ pc[Exec] = "post"
    /\ pc' = [pc EXCEPT ![Exec] = "postErr"]
    /\ UNCHANGED <<req, isConnected, connOpen, connOpens, lastDone, srvLedger, srvAccount,
                   onLedgerClosed, onTransaction>>
    /\ UNCHANGED <<nonClientVars>>

\* checkCompliance returned response.data.
ComplianceReturned ==
    /\ ephase = "awaitPost"
    /\ pc[Exec] = "postOk"
    /\ \E status \in ComplianceStatuses :
           Advance(ComplianceData(ecfg.addresses[itemIndex], status))
    /\ UNCHANGED execFrame

\* The post threw inside checkCompliance.
ComplianceFailed ==
    /\ ephase = "awaitPost"
    /\ pc[Exec] = "postErr"
    /\ checkComplianceCatch(ecfg.addresses[itemIndex])
    /\ UNCHANGED execFrame

\* The awaited client call returned.
CallReturned ==
    /\ ephase = "awaitCall"
    /\ pc[Exec] = "ok"
    /\ Advance(Result)
    /\ UNCHANGED execFrame

\* The awaited client call threw.
CallThrew ==
    /\ ephase = "awaitCall"
    /\ pc[Exec] = "err"
    /\ ItemFailed
    /\ UNCHANGED execFrame

\* Promise.all resolves once both book queries have.
AllResolved ==
    /\ ephase = "awaitAll"
    /\ \A t \in BookTasks(itemIndex) : pc[t] = "ok"
    /\ Advance(Result)
    /\ UNCHANGED execFrame

\* Promise.all rejects with the first rejection; the other query goes on.
AllRejected ==
    /\ ephase = "awaitAll"
    /\ \E t \in BookTasks(itemIndex) : pc[t] = "err"
    /\ ItemFailed
    /\ UNCHANGED execFrame

\* The disconnect after the loop returned: execute returns.
FinalDisconnectDone ==
    /\ ephase = "finalDisconnect"
    /\ pc[Exec] = "disconnected"
    /\ pc' = [pc EXCEPT ![Exec] = "idle"]
    /\ ephase' = "returned"
    /\ UNCHANGED <<itemIndex, returnData, execError>>
    /\ UNCHANGED execFrame

\* The disconnect of the outer catch returned: execute rethrows.
CatchDisconnectDone ==
    /\ ephase = "catchDisconnect"
    /\ pc[Exec] = "disconnected"
    /\ pc' = [pc EXCEPT ![Exec] = "idle"]
    /\ ephase' = "thrown"
    /\ UNCHANGED <<itemIndex, returnData, execError>>
    /\ UNCHANGED execFrame

TriggerIdle ==
    /\ tcfg = [network |-> "none", event |-> "none", watchAddress |-> "",
               minAmount |-> 0, largeTransferThreshold |-> 0]
    /\ tphase = "idle"
    /\ stopCalls = 0
    /\ nRaw = 0
    /\ last = NoEvent
    /\ sink = <<>>

InitExec ==
    ClientInit /\ EthInit /\ TriggerIdle /\ ExecInit /\ OrderIdle /\ WriteIdle /\ BookIdle /\ UtilIdle

NextExec ==
    \/ ItemGetAccountInfo
    \/ ItemGetOrderBook
    \/ ItemLocal
    \/ ItemCheckCompliance
    \/ PostResolve
    \/ PostReject
    \/ ComplianceReturned
    \/ ComplianceFailed
    \/ CallReturned
    \/ CallThrew
    \/ AllResolved
    \/ AllRejected
    \/ FinalDisconnectDone
    \/ CatchDisconnectDone
    \/ \E t \in ExecTasks : ConnectResolve(t)
    \/ \E t \in ExecTasks : ConnectReject(t)
    \/ \E t \in ExecTasks : RequestResolve(t)
    \/ \E t \in ExecTasks : RequestReject(t)
    \/ DisconnectResolve(Exec)

SpecExec == InitExec /\ [][NextExec]_vars

(* --------------------------- placeLimitOrder --------------------------- *)

\* xrpToDrops on a whole number of XRP: Math.floor(xrp * 1_000_000).
xrpToDrops(xrp) == xrp * DROPS_PER_XRP

\* getIssuerAddress() of the client.
IssuerAddress == "rIssuer"

IssuedAmount(value) ==
    [kind |-> "issued", currency |-> RLUSD_CURRENCY_CODE, issuer |-> IssuerAddress,
     value |-> value]

DropsAmount(drops) == [kind |-> "drops", value |-> drops]

\* dex / placeLimitOrder: the two sides execute hands to placeOrder.
LimitOrderSides(side, amt, price) ==
    IF side = "buy"
    THEN [takerGets |-> IssuedAmount(amt),
          takerPays |-> DropsAmount(xrpToDrops(amt * price))]
    ELSE [takerGets |-> DropsAmount(xrpToDrops(amt * price)),
          takerPays |-> IssuedAmount(amt)]

\* placeOrder with no options: the payload it hands to submitTransaction, or
\* the error it throws without a wallet.
placeOrder(takerGets, takerPays, wallet) ==
    IF ~wallet THEN [TransactionType |-> "error", message |-> "Wallet not set"]
    ELSE [TransactionType |-> "OfferCreate", TakerGets |-> takerGets,
          TakerPays |-> takerPays]

OrderInputs ==
    [side : {"buy", "sell"}, amount : 1..MaxQty, price : 1..MaxQty, wallet : BOOLEAN]

OrderInit ==
    /\ orderIn \in OrderInputs
    /\ orderOut = [TransactionType |-> "none"]

PlaceLimitOrder ==
    /\ orderOut.TransactionType = "none"
    /\ LET sides == LimitOrderSides(orderIn.side, orderIn.amount, orderIn.price)
       IN orderOut' = placeOrder(sides.takerGets, sides.takerPays, orderIn.wallet)
    /\ UNCHANGED <<clientVars, ethVars, triggerVars, execVars, orderIn, restVars>>

InitOrder ==
    ClientInit /\ EthInit /\ TriggerIdle /\ ExecIdle /\ OrderInit /\ WriteIdle /\ BookIdle /\ UtilIdle

NextOrder == PlaceLimitOrder

SpecOrder == InitOrder /\ [][NextOrder]_vars

(* ------------------------------ order book ---------------------------- *)

\* Offer lists a book_offers response may carry: up to MaxOffers distinct
\* offers in the server's order.
OfferLists ==
    {q \in UNION {[1..n -> 1..MaxOffers] : n \in 0..MaxOffers} :
        \A i \in 1..Len(q), j \in 1..Len(q) : i # j => q[i] # q[j]}

\* What the server answers a book_offers request.
BookResponse(offers) == [result |-> [offers |-> offers]]

\* getRlusdXrpOrderBook once both getOrderBook requests, each sent with
\* `limit`, have been answered.
getRlusdXrpOrderBook(limit, bidsResponse, asksResponse) ==
    [called |-> TRUE,
     bids |-> bidsResponse.result.offers,
     asks |-> asksResponse.result.offers]

\* `entries[0] || null`: the first entry, or nothing (null) for an empty side.
FirstOrNull(entries) == IF Len(entries) > 0 THEN <<entries[1]>> ELSE <<>>

\* A projection that took the last entry of each side.
getBestBidAskLast(bidsResponse, asksResponse) ==
    LET ob == getRlusdXrpOrderBook(1, bidsResponse, asksResponse)
    IN [called |-> TRUE,
        limit |-> 1,
        bestBid |-> IF Len(ob.bids) > 0 THEN <<ob.bids[Len(ob.bids)]>> ELSE <<>>,
        bestAsk |-> IF Len(ob.asks) > 0 THEN <<ob.asks[Len(ob.asks)]>> ELSE <<>>]

\* dex / getBestBidAsk: getRlusdXrpOrderBook(1) projected to
\* { bestBid: ob.bids[0] || null, bestAsk: ob.asks[0] || null }.
getBestBidAsk(bidsResponse, asksResponse) ==
    LET ob == getRlusdXrpOrderBook(1, bidsResponse, asksResponse)
    IN [called |-> TRUE,
        limit |-> 1,
        bestBid |-> FirstOrNull(ob.bids),
        bestAsk |-> FirstOrNull(ob.asks)]

BookInit ==
    /\ bookIn \in [limit : 1..MaxLimit, bids : OfferLists, asks : OfferLists]
    /\ bookOut = [called |-> FALSE, bids |-> <<>>, asks |-> <<>>]
    /\ bestOut = [called |-> FALSE, limit |-> 0, bestBid |-> <<>>, bestAsk |-> <<>>]

GetRlusdXrpOrderBook ==
    /\ ~bookOut.called
    /\ bookOut' = getRlusdXrpOrderBook(bookIn.limit, BookResponse(bookIn.bids),
                                       BookResponse(bookIn.asks))
    /\ UNCHANGED <<clientVars, ethVars, triggerVars, execVars, orderVars, writeVars,
                   bookIn, bestOut, utilVars>>

\* dex / getBestBidAsk on the same two server responses.
GetBestBidAsk ==
    /\ ~bestOut.called
    /\ bestOut' = getBestBidAsk(BookResponse(bookIn.bids), BookResponse(bookIn.asks))
    /\ UNCHANGED <<clientVars, ethVars, triggerVars, execVars, orderVars, writeVars,
                   bookIn, bookOut, utilVars>>

InitBook ==
    ClientInit /\ EthInit /\ TriggerIdle /\ ExecIdle /\ OrderIdle /\ WriteIdle /\ BookInit /\ UtilIdle

NextBook ==
    \/ GetRlusdXrpOrderBook
    \/ GetBestBidAsk

SpecBook == InitBook /\ [][NextBook]_vars

(* --------------------------- write operations -------------------------- *)

XrplWriteOps == {"setTrustline", "sendRlusd", "placeOrder", "cancelOrder", "createEscrow"}

EthWriteOps == {"transfer", "approve", "transferFrom"}

\* The operations that take options.destinationTag.
TaggedOps == {"sendRlusd", "createEscrow"}

\* Destination tags a caller may pass: hi * 65536 + lo with lo in 0..65535,
\* that is -1, 0, 1, 4294967295 and 4294967296, or none at all.
DestinationTags ==
    {NoTag} \cup {[given |-> TRUE, hi |-> t[1], lo |-> t[2]] :
                    t \in {<<-1, 65535>>, <<0, 0>>, <<0, 1>>, <<65535, 65535>>, <<65536, 0>>}}

\* JavaScript truthiness of options.destinationTag: undefined and 0 are falsy.
truthy(tag) == tag.given /\ ~(tag.hi = 0 /\ tag.lo = 0)

\* The transaction a write operation builds: its type and, for a payment or
\* an escrow, `...(options.destinationTag && { DestinationTag })`.
BuildTx(op, tag) ==
    [TransactionType |->
        CASE op = "setTrustline" -> "TrustSet"
          [] op = "sendRlusd" -> "Payment"
          [] op = "placeOrder" -> "OfferCreate"
          [] op = "cancelOrder" -> "OfferCancel"
          [] op = "createEscrow" -> "EscrowCreate",
     DestinationTag |-> IF op \in TaggedOps /\ truthy(tag) THEN tag ELSE NoTag]

\* An absent meta.TransactionResult, as a template literal renders it.
Undefined == "undefined"

\* The lookup table of getResultMessage.
messages ==
    [tesSUCCESS |-> <<"Transaction successful">>,
     tecUNFUNDED_PAYMENT |-> <<"Insufficient RLUSD balance">>,
     tecNO_DST |-> <<"Destination account does not exist">>,
     tecNO_LINE |-> <<"No trustline to RLUSD issuer">>,
     tecPATH_DRY |-> <<"No valid payment path found">>,
     tecINSUFF_FEE |-> <<"Insufficient XRP for transaction fee">>,
     tecFROZEN |-> <<"Trustline is frozen">>,
     tecNO_PERMISSION |-> <<"Not authorized for this operation">>]

\* Result codes a validated transaction may carry: the table's, two the
\* table does not list, and none.
LedgerCodes == DOMAIN messages \cup {"tecKILLED", "tefPAST_SEQ", Undefined}

\* A lookup that ignored the table.
getResultMessageNoTable(code) == <<"Transaction result: ", code>>

\* getResultMessage: messages[code] || `Transaction result: ${code}`, the
\* text as the sequence of its parts.
getResultMessage(code) ==
    IF code \in DOMAIN messages THEN messages[code]
    ELSE <<"Transaction result: ", code>>

\* The record submitTransaction returns for a validated transaction.
XrplTransactionResult(code) ==
    [success |-> (code = "tesSUCCESS"),
     hash |-> "hash",
     ledgerIndex |-> 1,
     resultCode |-> IF code = Undefined THEN "unknown" ELSE code,
     resultMessage |-> getResultMessage(code),
     fee |-> "12",
     sequence |-> 1,
     validated |-> TRUE]

\* formatResult: the record the Ethereum write operations return.
formatResult(status) ==
    [success |-> (status = 1),
     hash |-> "hash",
     blockNumber |-> 1,
     blockHash |-> "blockHash",
     gasUsed |-> "21000",
     effectiveGasPrice |-> "1",
     status |-> status,
     from |-> "a",
     to |-> "b"]

WriteInit ==
    /\ hasWallet \in BOOLEAN
    /\ wcall = NoCall
    /\ wphase = "idle"
    /\ wlog = <<>>
    /\ werror = "none"
    /\ outcomes = <<>>
    /\ nCalls = 0

\* A write operation that skipped the wallet test.
XrplEntryUnchecked(w) == "connecting"

\* `if (!this.wallet) throw new Error('Wallet not set'); await this.connect();`
\* where a write operation on the XRPL goes first.
XrplEntry(w) == IF ~w THEN "threw" ELSE "connecting"

\* `if (!this.contract) throw new Error('Wallet not set');` then the contract
\* call, which estimates gas before it sends.
EthEntry(w) == IF ~w THEN "threw" ELSE "estimateGas"

\* The current write operation throws.
Throw(message) ==
    /\ wphase' = "threw"
    /\ werror' = message

\* The current write operation returns a record.
Return(ledger, code, result) ==
    /\ wphase' = "returned"
    /\ outcomes' = Append(outcomes, [ledger |-> ledger, code |-> code, result |-> result])

writeFrame == <<ethVars, triggerVars, execVars, orderVars, bookVars, utilVars, hasWallet>>

\* setTrustline, sendRlusd, placeOrder, cancelOrder or createEscrow is called.
CallXrplWrite ==
    /\ wphase \in {"idle", "returned", "threw"}
    /\ nCalls < MaxCalls
    /\ nCalls' = nCalls + 1
    /\ \E op \in XrplWriteOps, tag \in DestinationTags :
         /\ (op \notin TaggedOps => tag = NoTag)
         /\ wcall' = [op |-> op, ledger |-> "xrpl", tag |-> tag, tx |-> NoPayload]
    /\ LET entry == XrplEntry(hasWallet)
       IN /\ wphase' = entry
          /\ werror' = IF entry = "threw" THEN "Wallet not set" ELSE "none"
          /\ pc' = [pc EXCEPT ![Sub] = IF entry = "threw" THEN "idle" ELSE AfterConnectCheck]
          /\ wlog' = IF entry = "connecting" /\ ~isConnected THEN <<"connect">> ELSE <<>>
    /\ UNCHANGED <<req, isConnected, connOpen, connOpens, lastDone, srvLedger, srvAccount,
                   onLedgerClosed, onTransaction, outcomes>>
    /\ UNCHANGED writeFrame

\* connect() returned: the operation builds its transaction and
\* submitTransaction calls client.autofill.
XrplWriteConnected ==
    /\ wphase = "connecting"
    /\ pc[Sub] = "request"
    /\ pc' = [pc EXCEPT ![Sub] = "idle"]
    /\ wcall' = [wcall EXCEPT !.tx = BuildTx(wcall.op, wcall.tag)]
    /\ wphase' = "autofill"
    /\ wlog' = Append(wlog, "autofill")
    /\ UNCHANGED <<req, isConnected, connOpen, connOpens, lastDone, srvLedger, srvAccount,
                   onLedgerClosed, onTransaction, werror, outcomes, nCalls>>
    /\ UNCHANGED writeFrame

\* connect() threw.
XrplWriteConnectFailed ==
    /\ wphase = "connecting"
    /\ pc[Sub] = "err"
    /\ pc' = [pc EXCEPT ![Sub] = "idle"]
    /\ Throw("connect failed")
    /\ UNCHANGED <<req, isConnected, connOpen, connOpens, lastDone, srvLedger, srvAccount,
                   onLedgerClosed, onTransaction, wcall, wlog, outcomes, nCalls>>
    /\ UNCHANGED writeFrame

\* client.autofill resolved: wallet.sign, then client.submitAndWait is called.
AutofillResolve ==
    /\ wphase = "autofill"
    /\ connOpen
    /\ wphase' = "submitAndWait"
    /\ wlog' = wlog \o <<"sign", "submitAndWait">>
    /\ UNCHANGED <<clientVars, wcall, werror, outcomes, nCalls>>
    /\ UNCHANGED writeFrame

\* client.autofill rejected.
AutofillReject ==
    /\ wphase = "autofill"
    /\ Throw("autofill failed")
    /\ UNCHANGED <<clientVars, wcall, wlog, outcomes, nCalls>>
    /\ UNCHANGED writeFrame

\* A submission that started over after a failure.
SubmitRejectRetry ==
    /\ wphase = "submitAndWait"
    /\ wphase' = "autofill"
    /\ wlog' = Append(wlog, "autofill")
    /\ UNCHANGED <<clientVars, wcall, werror, outcomes, nCalls>>
    /\ UNCHANGED writeFrame

\* client.submitAndWait rejected: the transaction was refused or was not
\* validated in time; submitTransaction throws.
SubmitReject ==
    /\ wphase = "submitAndWait"
    /\ Throw("submitAndWait failed")
    /\ UNCHANGED <<clientVars, wcall, wlog, outcomes, nCalls>>
    /\ UNCHANGED writeFrame

\* client.submitAndWait resolved with a validated transaction.
SubmitResolve ==
    /\ wphase = "submitAndWait"
    /\ connOpen
    /\ \E code \in LedgerCodes : Return("xrpl", code, XrplTransactionResult(code))
    /\ UNCHANGED <<clientVars, wcall, wlog, werror, nCalls>>
    /\ UNCHANGED writeFrame

\* transfer, approve or transferFrom is called on the Ethereum client.
CallEthWrite ==
    /\ wphase \in {"idle", "returned", "threw"}
    /\ nCalls < MaxCalls
    /\ nCalls' = nCalls + 1
    /\ \E op \in EthWriteOps :
         wcall' = [op |-> op, ledger |-> "ethereum", tag |-> NoTag, tx |-> NoPayload]
    /\ LET entry == EthEntry(hasWallet)
       IN /\ wphase' = entry
          /\ werror' = IF entry = "threw" THEN "Wallet not set" ELSE "none"
          /\ wlog' = IF entry = "threw" THEN <<>> ELSE <<"estimateGas">>
    /\ UNCHANGED <<clientVars, outcomes>>
    /\ UNCHANGED writeFrame

\* The gas estimate of the contract call arrived: the transaction is sent.
EthEstimateResolve ==
    /\ wphase = "estimateGas"
    /\ wphase' = "send"
    /\ wlog' = Append(wlog, "sendTransaction")
    /\ UNCHANGED <<clientVars, wcall, werror, outcomes, nCalls>>
    /\ UNCHANGED writeFrame

\* The gas estimate failed: the contract call rejects and the operation,
\* which passes no gas limit and catches nothing, throws.
EthEstimateReject ==
    /\ wphase = "estimateGas"
    /\ Throw("estimateGas failed")
    /\ UNCHANGED <<clientVars, wcall, wlog, outcomes, nCalls>>
    /\ UNCHANGED writeFrame

\* The node accepted the transaction: the operation awaits tx.wait().
EthSendResolve ==
    /\ wphase = "send"
    /\ wphase' = "wait"
    /\ wlog' = Append(wlog, "wait")
    /\ UNCHANGED <<clientVars, wcall, werror, outcomes, nCalls>>
    /\ UNCHANGED writeFrame

\* Sending, or waiting for the receipt, rejected.
EthSendReject ==
    /\ wphase \in {"send", "wait"}
    /\ Throw("transaction failed")
    /\ UNCHANGED <<clientVars, wcall, wlog, outcomes, nCalls>>
    /\ UNCHANGED writeFrame

\* The receipt arrived.
EthWaitResolve ==
    /\ wphase = "wait"
    /\ \E status \in {0, 1} : Return("ethereum", "none", formatResult(status))
    /\ UNCHANGED <<clientVars, wcall, wlog, werror, nCalls>>
    /\ UNCHANGED writeFrame

InitWrite ==
    ClientInit /\ EthInit /\ TriggerIdle /\ ExecIdle /\ OrderIdle /\ WriteInit /\ BookIdle /\ UtilIdle

NextWrite ==
    \/ CallXrplWrite
    \/ XrplWriteConnected
    \/ XrplWriteConnectFailed
    \/ AutofillResolve
    \/ AutofillReject
    \/ SubmitReject
    \/ SubmitResolve
    \/ CallEthWrite
    \/ EthEstimateResolve
    \/ EthEstimateReject
    \/ EthSendResolve
    \/ EthSendReject
    \/ EthWaitResolve
    \/ ConnectResolve(Sub)
    \/ ConnectReject(Sub)

SpecWrite == InitWrite /\ [][NextWrite]_vars

(* ------------------------------ utilities ----------------------------- *)

\* a | b on non-negative integers, bit by bit.
RECURSIVE BitOr(_, _)
BitOr(a, b) ==
    IF a = 0 THEN b
    ELSE IF b = 0 THEN a
    ELSE (IF a % 2 = 1 \/ b % 2 = 1 THEN 1 ELSE 0) + 2 * BitOr(a \div 2, b \div 2)

\* 0x00010000, 0x00020000, 0x00040000, 0x00100000, 0x00200000.
TRUSTSET_FLAGS ==
    [tfSetfAuth |-> 65536, tfSetNoRipple |-> 131072, tfClearNoRipple |-> 262144,
     tfSetFreeze |-> 1048576, tfClearFreeze |-> 2097152]

\* 0x00010000, 0x00020000, 0x00040000.
PAYMENT_FLAGS ==
    [tfNoDirectRipple |-> 65536, tfPartialPayment |-> 131072, tfLimitQuality |-> 262144]

\* 0x00010000, 0x00020000, 0x00040000, 0x00080000.
OFFER_FLAGS ==
    [tfPassive |-> 65536, tfImmediateOrCancel |-> 131072, tfFillOrKill |-> 262144,
     tfSell |-> 524288]

\* `if (option) flags |= bit;`
OrIf(flags, option, bit) == IF option THEN BitOr(flags, bit) ELSE flags

\* A builder in which clearNoRipple took the place of setNoRipple's bit.
buildTrustSetFlagsExclusive(options) ==
    LET f1 == OrIf(0, options.setAuth, TRUSTSET_FLAGS.tfSetfAuth)
        f2 == OrIf(f1, options.setNoRipple /\ ~options.clearNoRipple,
                   TRUSTSET_FLAGS.tfSetNoRipple)
        f3 == OrIf(f2, options.clearNoRipple, TRUSTSET_FLAGS.tfClearNoRipple)
        f4 == OrIf(f3, options.setFreeze, TRUSTSET_FLAGS.tfSetFreeze)
    IN OrIf(f4, options.clearFreeze, TRUSTSET_FLAGS.tfClearFreeze)

buildTrustSetFlags(options) ==
    LET f1 == OrIf(0, options.setAuth, TRUSTSET_FLAGS.tfSetfAuth)
        f2 == OrIf(f1, options.setNoRipple, TRUSTSET_FLAGS.tfSetNoRipple)
        f3 == OrIf(f2, options.clearNoRipple, TRUSTSET_FLAGS.tfClearNoRipple)
        f4 == OrIf(f3, options.setFreeze, TRUSTSET_FLAGS.tfSetFreeze)
    IN OrIf(f4, options.clearFreeze, TRUSTSET_FLAGS.tfClearFreeze)

buildPaymentFlags(options) ==
    LET f1 == OrIf(0, options.noDirectRipple, PAYMENT_FLAGS.tfNoDirectRipple)
        f2 == OrIf(f1, options.partialPayment, PAYMENT_FLAGS.tfPartialPayment)
    IN OrIf(f2, options.limitQuality, PAYMENT_FLAGS.tfLimitQuality)

buildOfferFlags(options) ==
    LET f1 == OrIf(0, options.passive, OFFER_FLAGS.tfPassive)
        f2 == OrIf(f1, options.immediateOrCancel, OFFER_FLAGS.tfImmediateOrCancel)
        f3 == OrIf(f2, options.fillOrKill, OFFER_FLAGS.tfFillOrKill)
    IN OrIf(f3, options.sell, OFFER_FLAGS.tfSell)

TrustSetOptions ==
    [setAuth : BOOLEAN, setNoRipple : BOOLEAN, clearNoRipple : BOOLEAN,
     setFreeze : BOOLEAN, clearFreeze : BOOLEAN]

PaymentOptions == [noDirectRipple : BOOLEAN, partialPayment : BOOLEAN, limitQuality : BOOLEAN]

OfferOptions ==
    [passive : BOOLEAN, immediateOrCancel : BOOLEAN, fillOrKill : BOOLEAN, sell : BOOLEAN]

FlagInputs ==
    [fn : {"buildTrustSetFlags"}, options : TrustSetOptions]
        \cup [fn : {"buildPaymentFlags"}, options : PaymentOptions]
        \cup [fn : {"buildOfferFlags"}, options : OfferOptions]

utilFrame == <<clientVars, ethVars, triggerVars, execVars, orderVars, writeVars, bookVars, fnIn>>

BuildTrustSetFlags ==
    /\ fnIn.fn = "buildTrustSetFlags"
    /\ ~fnOut.done
    /\ fnOut' = [done |-> TRUE, value |-> buildTrustSetFlags(fnIn.options)]
    /\ UNCHANGED utilFrame

BuildPaymentFlags ==
    /\ fnIn.fn = "buildPaymentFlags"
    /\ ~fnOut.done
    /\ fnOut' = [done |-> TRUE, value |-> buildPaymentFlags(fnIn.options)]
    /\ UNCHANGED utilFrame

BuildOfferFlags ==
    /\ fnIn.fn = "buildOfferFlags"
    /\ ~fnOut.done
    /\ fnOut' = [done |-> TRUE, value |-> buildOfferFlags(fnIn.options)]
    /\ UNCHANGED utilFrame

\* Numbers a caller may pass as a tag: hi * 65536 + lo, plus one half when
\* frac is set; among them -1, -0.5, 0, 0.5, 1, 4294967295 and 4294967296.
TagNumbers == [hi : {-1, 0, 65535, 65536}, lo : {0, 1, 65535}, frac : BOOLEAN]

\* A validation that forgot the upper bound.
validateDestinationTagNoUpper(tag) == ~tag.frac /\ tag.hi >= 0

\* Number.isInteger(tag) && tag >= 0 && tag <= 4294967295
validateDestinationTag(tag) ==
    /\ ~tag.frac
    /\ tag.hi >= 0
    /\ \/ tag.hi < 65535
       \/ (tag.hi = 65535 /\ tag.lo <= 65535)

TagInputs == [fn : {"validateDestinationTag"}, tag : TagNumbers]

ValidateDestinationTag ==
    /\ fnIn.fn = "validateDestinationTag"
    /\ ~fnOut.done
    /\ fnOut' = [done |-> TRUE, value |-> validateDestinationTag(fnIn.tag)]
    /\ UNCHANGED utilFrame

\* floor(log2(n)) for n >= 1: the binary exponent of the double n.
RECURSIVE Log2(_)
Log2(n) == IF n < 2 THEN 0 ELSE 1 + Log2(n \div 2)

\* How far the binary exponent of n / 1_000_000 lies below that of n: 19 or 20.
QuotientShift(n) ==
    LET e == Log2(n)
    IN IF (IF e <= 19 THEN n * 2^(19 - e) >= DROPS_PER_XRP
                      ELSE n >= DROPS_PER_XRP * 2^(e - 19))
       THEN 19 ELSE 20

\* (x * 2^n) mod 1_000_000, ten bits at a time while ten remain.
RECURSIVE ShiftMod(_, _)
ShiftMod(x, n) ==
    IF n = 0 THEN x % DROPS_PER_XRP
    ELSE IF n >= 10 THEN ShiftMod((1024 * (x % DROPS_PER_XRP)) % DROPS_PER_XRP, n - 10)
    ELSE ShiftMod((2 * x) % DROPS_PER_XRP, n - 1)

\* The double Number(drops) / 1_000_000: the 53-bit value nearest to the
\* quotient.  It is written by what it is times 1_000_000, exactly:
\* micro + err / 2^exp, where 2^exp scales the quotient to 53 bits and err
\* is the rounding error of the division in units of 2^-exp.
DivideByMillion(n) ==
    IF n = 0 THEN [micro |-> 0, err |-> 0, exp |-> 0]
    ELSE LET exp == 52 - (Log2(n) - QuotientShift(n))
             rem == ShiftMod(n, exp)
         IN [micro |-> n,
             err |-> IF rem <= DROPS_PER_XRP \div 2 THEN 0 - rem ELSE DROPS_PER_XRP - rem,
             exp |-> exp]

\* Math.floor(x * 1_000_000) for such a double: the product micro + err/2^exp
\* is rounded to the nearest double, which is micro itself unless the error
\* exceeds half the spacing of doubles next to micro; below micro that
\* spacing is 2^(Log2(micro) - 52), halved when micro is a power of two.
FloorTimesMillion(x) ==
    IF x.micro = 0 \/ x.err >= 0 THEN x.micro
    ELSE LET shift == x.exp - (52 - Log2(x.micro))
             spacing == IF x.micro = 2^Log2(x.micro) THEN 2^(shift - 1) ELSE 2^shift
         IN IF 2 * (0 - x.err) > spacing THEN x.micro - 1 ELSE x.micro

\* dropsToXrp on a drops string: (Number(BigInt(drops)) / 1_000_000).toString(),
\* the shortest decimal string that reads back as the same double.
dropsToXrp(drops) == DivideByMillion(drops)

\* xrpToDrops on such a string: Math.floor(parseFloat(xrp) * 1_000_000).
xrpToDropsOfString(xrp) == FloorTimesMillion(xrp)

DropsInputs == [fn : {"dropsRoundTrip"}, drops : 0..MaxDrops]

DropsRoundTrip ==
    /\ fnIn.fn = "dropsRoundTrip"
    /\ ~fnOut.done
    /\ fnOut' = [done |-> TRUE, value |-> xrpToDropsOfString(dropsToXrp(fnIn.drops))]
    /\ UNCHANGED utilFrame

\* Decimal strings handed to the pricing helpers, zero included.
PriceStrings == [k : 0..MaxAmount, eps : {-1, 0, 1}]

\* A parsed number: k, or k / 1_000_000 for a drops string.
Num(k, micro) == [k |-> k, micro |-> micro]

\* The string '0' a helper returns instead of dividing.
ZeroText == [text |-> "0", num |-> Num(0, FALSE), den |-> Num(1, FALSE)]

\* The string of num / den.
Quotient(num, den) == [text |-> "quotient", num |-> num, den |-> den]

\* A quality computed without the test for zero.
calculateQualityUnguarded(takerPaysValue, takerGetsValue) ==
    Quotient(Num(parseFloat(takerPaysValue), FALSE), Num(parseFloat(takerGetsValue), FALSE))

calculateQuality(takerPaysValue, takerGetsValue) ==
    LET pays == parseFloat(takerPaysValue)
        gets == parseFloat(takerGetsValue)
    IN IF gets = 0 THEN ZeroText
       ELSE Quotient(Num(pays, FALSE), Num(gets, FALSE))

\* An amount argument of calculatePrice: a drops string or { value }.
PriceAmounts == [isString : BOOLEAN, value : PriceStrings]

\* typeof a === 'string' ? parseFloat(a) / 1_000_000 : parseFloat(a.value)
AmountNumber(a) == Num(parseFloat(a.value), a.isString)

calculatePrice(takerGets, takerPays, invert) ==
    LET gets == AmountNumber(takerGets)
        pays == AmountNumber(takerPays)
    IN IF invert
       THEN (IF gets.k = 0 THEN ZeroText ELSE Quotient(pays, gets))
       ELSE (IF pays.k = 0 THEN ZeroText ELSE Quotient(gets, pays))

calculateSpread(bestBid, bestAsk) ==
    LET bid == parseFloat(bestBid)
        ask == parseFloat(bestAsk)
    IN [absolute |-> ask - bid,
        percentage |-> IF bid = 0 THEN ZeroText
                       ELSE Quotient(Num(ask - bid, FALSE), Num(bid, FALSE))]

PricingInputs ==
    [fn : {"calculateQuality"}, pays : PriceStrings, gets : PriceStrings]
        \cup [fn : {"calculatePrice"}, gets : PriceAmounts, pays : PriceAmounts,
              invert : BOOLEAN]
        \cup [fn : {"calculateSpread"}, bid : PriceStrings, ask : PriceStrings]

CalculateQuality ==
    /\ fnIn.fn = "calculateQuality"
    /\ ~fnOut.done
    /\ fnOut' = [done |-> TRUE, value |-> calculateQuality(fnIn.pays, fnIn.gets)]
    /\ UNCHANGED utilFrame

CalculatePrice ==
    /\ fnIn.fn = "calculatePrice"
    /\ ~fnOut.done
    /\ fnOut' = [done |-> TRUE, value |-> calculatePrice(fnIn.gets, fnIn.pays, fnIn.invert)]
    /\ UNCHANGED utilFrame

CalculateSpread ==
    /\ fnIn.fn = "calculateSpread"
    /\ ~fnOut.done
    /\ fnOut' = [done |-> TRUE, value |-> calculateSpread(fnIn.bid, fnIn.ask)]
    /\ UNCHANGED utilFrame

UtilInputs == FlagInputs \cup TagInputs \cup DropsInputs \cup PricingInputs

UtilInit ==
    /\ fnIn \in UtilInputs
    /\ fnOut = [done |-> FALSE]

InitUtils ==
    /\ ClientInit /\ EthInit /\ TriggerIdle /\ ExecIdle /\ OrderIdle
    /\ WriteIdle /\ BookIdle /\ UtilInit

NextUtils ==
    \/ BuildTrustSetFlags
    \/ BuildPaymentFlags
    \/ BuildOfferFlags
    \/ ValidateDestinationTag
    \/ DropsRoundTrip
    \/ CalculateQuality
    \/ CalculatePrice
    \/ CalculateSpread

SpecUtils == InitUtils /\ [][NextUtils]_vars

(* ------------------------- claims: the trigger ------------------------- *)

\* The latest raw event is a transfer of the tracked asset.
IsTrackedTransfer(e) ==
    /\ e.src \in {"transaction", "Transfer"}
    /\ e.tx.TransactionType = "Payment"
    /\ e.tx.Amount.kind = "issued"
    /\ e.tx.Amount.currency = "RLUSD"

\* Two addresses that differ at most in letter case.
SameIgnoringCase(x, y) == x = y \/ {x, y} = {"a", "A"}

\* C1: after the close function has been called, no event reaches the sink,
\* on either ledger, whatever the connection or provider still delivers.
C1_NoForwardAfterStop == ~(last.fwd /\ last.stops > 0)

\* C5: once the trigger's start has failed, the XRPL connection it opened is
\* closed again.
C5_FailedStartLeavesNoConnection == (tphase = "startFailed") => ~connOpen

\* C6: on the XRPL with a watch address W, a tracked payment sent by W to
\* another account is forwarded under 'transfer' and 'transferFrom' when it
\* meets the threshold and never under 'transferTo'; one only received by W
\* is never forwarded under 'transferFrom'.
C6_XrplDirectionFilter ==
    (/\ IsXrplNetwork(tcfg.network)
     /\ tcfg.watchAddress # ""
     /\ IsTrackedTransfer(last))
    => LET W == tcfg.watchAddress
           sentOnly == last.tx.Account = W /\ last.tx.Destination # W
           receivedOnly == last.tx.Destination = W /\ last.tx.Account # W
       IN /\ (sentOnly /\ last.fwd) => tcfg.event # "transferTo"
          /\ (receivedOnly /\ last.fwd) => tcfg.event # "transferFrom"
          /\ (/\ sentOnly
              /\ tcfg.event \in {"transfer", "transferFrom"}
              /\ last.phase = "active"
              /\ last.delivered
              /\ ExactlyAtLeast(last.tx.Amount.value, tcfg.minAmount))
             => last.fwd

\* C7: on Ethereum with a watch address W, a forwarded Transfer satisfies
\* (transferTo and to = W) or (transferFrom and from = W) or (transfer and
\* (from = W or to = W)), letter case ignored; every other one is dropped.
C7_EthereumAddressFilter ==
    (/\ IsEthereumNetwork(tcfg.network)
     /\ tcfg.watchAddress # ""
     /\ last.src = "Transfer"
     /\ last.fwd)
    => LET W == tcfg.watchAddress
           from == last.tx.Account
           to == last.tx.Destination
       IN \/ (tcfg.event = "transferTo" /\ SameIgnoringCase(to, W))
          \/ (tcfg.event = "transferFrom" /\ SameIgnoringCase(from, W))
          \/ (tcfg.event = "transfer"
               /\ (SameIgnoringCase(from, W) \/ SameIgnoringCase(to, W)))

\* C7 happens: a Transfer to the watched address, written in the other
\* letter case and sent by another account, is forwarded under 'transferTo'.
C7_Witness ==
    /\ IsEthereumNetwork(tcfg.network)
    /\ tcfg.watchAddress = "A"
    /\ tcfg.event = "transferTo"
    /\ last.src = "Transfer"
    /\ last.tx.Destination = "a"
    /\ last.tx.Account = "b"
    /\ last.fwd

\* C8: a transfer whose amount is strictly below the active threshold is
\* never forwarded, on either ledger, and on the XRPL nothing but a payment
\* of the tracked currency is forwarded.
C8_BelowThresholdNeverForwarded ==
    (last.fwd /\ last.src \in {"transaction", "Transfer"})
    => /\ IsTrackedTransfer(last)
       /\ ExactlyAtLeast(last.tx.Amount.value,
                         IF tcfg.event = "largeTransfer"
                         THEN tcfg.largeTransferThreshold ELSE tcfg.minAmount)

\* C9: with no watch address, every tracked transfer that happens while a
\* transfer-kind trigger is active and meets the threshold is forwarded.
C9_NoWatchAddressForwardsAll ==
    (/\ tcfg.watchAddress = ""
     /\ tcfg.event \in {"transfer", "transferTo", "transferFrom"}
     /\ IsTrackedTransfer(last)
     /\ last.phase = "active"
     /\ ExactlyAtLeast(last.tx.Amount.value, tcfg.minAmount))
    => last.fwd

\* C10: under 'largeTransfer' every tracked transfer above the large-transfer
\* threshold that happens while the trigger is active is forwarded, whatever
\* the watch address parameter holds.
C10_LargeTransferForwardsAll ==
    (/\ tcfg.event = "largeTransfer"
     /\ IsTrackedTransfer(last)
     /\ last.phase = "active"
     /\ ExactlyAbove(last.tx.Amount.value, tcfg.largeTransferThreshold))
    => last.fwd

(* -------------------- claims: execute and the order -------------------- *)

\* C2: a 'buy' limit order offers drops (TakerGets) and asks for the issued
\* RLUSD triple (TakerPays); a 'sell' order is the swapped assignment.
C2_OrderSideAssignment ==
    (orderOut.TransactionType = "OfferCreate")
    => LET drops == [kind |-> "drops",
                     value |-> orderIn.amount * orderIn.price * 1000000]
           issued == [kind |-> "issued", currency |-> "RLUSD",
                      issuer |-> IssuerAddress, value |-> orderIn.amount]
       IN IF orderIn.side = "buy"
          THEN orderOut.TakerGets = drops /\ orderOut.TakerPays = issued
          ELSE orderOut.TakerGets = issued /\ orderOut.TakerPays = drops

\* C3: between two disconnects the underlying connection of one XrplClient
\* is opened at most once.
C3_ConnectionOpenedAtMostOnce == connOpens <= 1

\* C4: once execute has returned or thrown, no XRPL connection it opened is
\* left open.
C4_ExecuteAlwaysDisconnects == (ephase \in {"returned", "thrown"}) => ~connOpen

\* C11: the sink holds the forwarded events in the order the connection
\* emitted the raw events, each raw event at most once: the sequence numbers
\* in the sink are strictly increasing and none exceeds the events so far.
C11_InOrderAtMostOnce ==
    /\ \A i \in 1..Len(sink) : sink[i] \in 1..nRaw
    /\ \A i \in 1..Len(sink), j \in 1..Len(sink) : i < j => sink[i] < sink[j]

\* C11 happens: two raw events were forwarded while the trigger was active.
C11_Witness ==
    /\ Len(sink) = 2
    /\ last.fwd
    /\ last.phase = "active"

\* C12: stop completes without error when it is called after a completed
\* stop or after a start that never connected; a stop fails only on an
\* open connection.
C12_StopIdempotent == (tphase = "stopFailed") => connOpen

\* C13: on the XRPL, once stop has moved on from unsubscribing to tearing
\* the connection down, the server holds no subscription of this connection:
\* neither the ledger stream nor the watched account.
C13_UnsubscribedBeforeDisconnect ==
    (IsXrplNetwork(tcfg.network) /\ tphase = "disconnecting")
        => (~srvLedger /\ ~srvAccount)


\* C14: with no signing credential loaded every write operation throws the
\* no-credential error having started no network action: nothing is
\* connected, requested or sent and the connection state stays as it was.
C14_NoCredentialBeforeNetwork ==
    ~hasWallet =>
        /\ wlog = <<>>
        /\ ~isConnected /\ ~connOpen /\ connOpens = 0
        /\ pc[Sub] = "idle"
        /\ wphase \in {"idle", "threw"}
        /\ (wphase = "threw" => werror = "Wallet not set")
        /\ outcomes = <<>>

\* C14 happens: an Ethereum write and an XRPL write have both been refused
\* for the missing credential.
C14_Witness ==
    /\ ~hasWallet
    /\ nCalls = 2
    /\ wcall.ledger = "xrpl"
    /\ wphase = "threw"
    /\ werror = "Wallet not set"

\* A destination tag is an integer in 0..4294967295.
TagInRange(tag) == tag.hi >= 0 /\ tag.hi <= 65535 /\ tag.lo >= 0 /\ tag.lo <= 65535

\* C15: a payment or escrow called with a destination tag outside
\* 0..4294967295 has thrown the invalid-destination-tag error and has
\* started no network action.
C15_InvalidTagRejectedFirst ==
    (/\ hasWallet
     /\ wcall.op \in TaggedOps
     /\ wcall.tag.given
     /\ ~TagInRange(wcall.tag))
    => (wphase = "threw" /\ werror = "Invalid destination tag" /\ wlog = <<>>)

\* The text contains the raw code.
ContainsCode(message, code) == \E k \in 1..Len(message) : message[k] = code

\* C16: an XRPL outcome has success = true exactly for tesSUCCESS; another
\* code of the table gives its mapped message; a code outside the table, an
\* absent one included, gives the generic message that contains the code.
C16_OutcomeMapping ==
    \A i \in 1..Len(outcomes) :
        outcomes[i].ledger = "xrpl" =>
            LET code == outcomes[i].code
                r == outcomes[i].result
            IN /\ r.success = (code = "tesSUCCESS")
               /\ (code = "tecNO_DST"
                     => r.resultMessage = <<"Destination account does not exist">>)
               /\ (code = "tecFROZEN" => r.resultMessage = <<"Trustline is frozen">>)
               /\ (code \in DOMAIN messages
                     => (r.resultMessage = messages[code]
                         /\ ~ContainsCode(r.resultMessage, code)))
               /\ (code \notin DOMAIN messages
                     => (r.resultMessage[1] = "Transaction result: "
                         /\ ContainsCode(r.resultMessage, code)))

\* C16 happens: one submission ended with a code of the table other than
\* tesSUCCESS and another with no code at all.
C16_Witness ==
    /\ Len(outcomes) = 2
    /\ outcomes[1].ledger = "xrpl" /\ outcomes[1].code = "tecNO_DST"
    /\ outcomes[2].ledger = "xrpl" /\ outcomes[2].code = Undefined

\* The steps of submitTransaction among the network actions of a call.
SubmissionSteps(log) ==
    SelectSeq(log, LAMBDA a : a \in {"autofill", "sign", "submitAndWait"})

\* C17: a submission autofills, signs and submits in that order, each at
\* most once; it returns only after all three, and a failure ends the call
\* with an error and nothing done again.
C17_SubmissionStateMachine ==
    wcall.ledger = "xrpl" =>
        LET steps == SubmissionSteps(wlog)
        IN /\ steps \in {<<>>, <<"autofill">>, <<"autofill", "sign", "submitAndWait">>}
           /\ (wphase = "returned"
                 => (steps = <<"autofill", "sign", "submitAndWait">> /\ werror = "none"))
           /\ (wphase = "threw" <=> werror # "none")
           /\ (wphase = "autofill" => steps = <<"autofill">>)
           /\ (wphase = "submitAndWait" => steps = <<"autofill", "sign", "submitAndWait">>)
           /\ Len(outcomes) <= nCalls
           /\ (wphase \in {"connecting", "autofill", "submitAndWait", "threw"}
                 => Len(outcomes) < nCalls)

\* C17 happens: submitAndWait failed after autofill and sign, and the call
\* ended with that error.
C17_Witness ==
    /\ wcall.ledger = "xrpl"
    /\ wphase = "threw"
    /\ werror = "submitAndWait failed"
    /\ SubmissionSteps(wlog) = <<"autofill", "sign", "submitAndWait">>

\* C18: no Ethereum write operation fails because its gas estimation failed.
C18_GasEstimateFallback ==
    ~(wcall.ledger = "ethereum" /\ wphase = "threw" /\ werror = "estimateGas failed")

\* C19: the outcome records of the two ledgers have the same fields.
C19_SameOutcomeFields ==
    \A i \in 1..Len(outcomes), j \in 1..Len(outcomes) :
        DOMAIN outcomes[i].result = DOMAIN outcomes[j].result


\* C20: whatever the two book_offers responses carry, getRlusdXrpOrderBook
\* returns at most `limit` entries per side, each side in the server's order.
C20_OrderBookLimitAndOrder ==
    bookOut.called =>
        /\ Len(bookOut.bids) <= bookIn.limit
        /\ Len(bookOut.asks) <= bookIn.limit
        /\ \A i \in 1..Len(bookOut.bids) : bookOut.bids[i] = bookIn.bids[i]
        /\ \A i \in 1..Len(bookOut.asks) : bookOut.asks[i] = bookIn.asks[i]


\* C21: getBestBidAsk asks for the book with limit 1 and returns, side by
\* side, the first entry the server listed, or null for an empty side.
C21_BestBidAsk ==
    bestOut.called =>
        /\ bestOut.limit = 1
        /\ bestOut.bestBid = IF bookIn.bids = <<>> THEN <<>> ELSE <<Head(bookIn.bids)>>
        /\ bestOut.bestAsk = IF bookIn.asks = <<>> THEN <<>> ELSE <<Head(bookIn.asks)>>

\* C21 happens: the bid side is empty and the ask side lists several offers.
C21_Witness ==
    /\ bestOut.called
    /\ bookIn.bids = <<>>
    /\ Len(bookIn.asks) = 2
    /\ bestOut.bestBid = <<>>
    /\ bestOut.bestAsk # <<>>


\* C22: with continueOnFail execute never throws for an item and returns one
\* result per item in input order, a failed item as an error object; without
\* it the first failing item aborts the batch with that item's index.
C22_ContinueOnFail ==
    /\ \A k \in 1..Len(returnData) : returnData[k].item = k
    /\ (ephase = "returned" => Len(returnData) = ecfg.items)
    /\ (ecfg.continueOnFail
          => (ephase \notin {"catchDisconnect", "thrown"} /\ execError.itemIndex = 0))
    /\ (~ecfg.continueOnFail
          => \A k \in 1..Len(returnData) : returnData[k].json.kind # "error")
    /\ (ephase \in {"catchDisconnect", "thrown"}
          => (execError.itemIndex = Len(returnData) + 1
              /\ execError.itemIndex = itemIndex))

\* C22 happens: with continueOnFail the first item failed, the second was
\* still processed and execute returned both.
C22_Witness ==
    /\ ecfg.continueOnFail
    /\ ephase = "returned"
    /\ Len(returnData) = 2
    /\ returnData[1].json.kind = "error"
    /\ returnData[2].json.kind = "result"


\* The bit constants of a builder's options that are set to true, by the
\* name of the option.
TrustSetBits(o) ==
    (IF o.setNoRipple THEN {131072} ELSE {})
        \cup (IF o.setAuth THEN {65536} ELSE {})
        \cup (IF o.clearNoRipple THEN {262144} ELSE {})
        \cup (IF o.setFreeze THEN {1048576} ELSE {})
        \cup (IF o.clearFreeze THEN {2097152} ELSE {})

PaymentBits(o) ==
    (IF o.noDirectRipple THEN {65536} ELSE {})
        \cup (IF o.partialPayment THEN {131072} ELSE {})
        \cup (IF o.limitQuality THEN {262144} ELSE {})

OfferBits(o) ==
    (IF o.passive THEN {65536} ELSE {})
        \cup (IF o.immediateOrCancel THEN {131072} ELSE {})
        \cup (IF o.fillOrKill THEN {262144} ELSE {})
        \cup (IF o.sell THEN {524288} ELSE {})

\* The value whose set bits are exactly the given distinct powers of two.
RECURSIVE SumOf(_)
SumOf(bits) ==
    IF bits = {} THEN 0
    ELSE LET b == CHOOSE x \in bits : TRUE IN b + SumOf(bits \ {b})

\* C23: each flag builder returns exactly the bits of the options set to
\* true: 0 for no option, 0x00020000 for setNoRipple alone, and exclusive
\* options set together both keep their bits.
C23_FlagBuilders ==
    (fnOut.done /\ fnIn.fn \in {"buildTrustSetFlags", "buildPaymentFlags", "buildOfferFlags"})
    => LET o == fnIn.options
           bits == CASE fnIn.fn = "buildTrustSetFlags" -> TrustSetBits(o)
                     [] fnIn.fn = "buildPaymentFlags" -> PaymentBits(o)
                     [] fnIn.fn = "buildOfferFlags" -> OfferBits(o)
       IN /\ fnOut.value = SumOf(bits)
          /\ (bits = {} => fnOut.value = 0)

\* C23 happens: setNoRipple and clearNoRipple were set together and the
\* result carries both bits.
C23_Witness ==
    /\ fnOut.done
    /\ fnIn.fn = "buildTrustSetFlags"
    /\ fnIn.options = [setAuth |-> FALSE, setNoRipple |-> TRUE, clearNoRipple |-> TRUE,
                       setFreeze |-> FALSE, clearFreeze |-> FALSE]
    /\ fnOut.value = 131072 + 262144


\* C24: validateDestinationTag is true exactly for the integers in
\* 0..4294967295: -1 and 4294967296 are rejected, 0 and 4294967295 accepted.
C24_ValidateDestinationTag ==
    (fnOut.done /\ fnIn.fn = "validateDestinationTag")
    => LET tag == fnIn.tag
       IN /\ fnOut.value = (~tag.frac /\ TagInRange(tag))
          /\ (tag = [hi |-> -1, lo |-> 65535, frac |-> FALSE] => ~fnOut.value)
          /\ (tag = [hi |-> 65536, lo |-> 0, frac |-> FALSE] => ~fnOut.value)
          /\ (tag = [hi |-> 0, lo |-> 0, frac |-> FALSE] => fnOut.value)
          /\ (tag = [hi |-> 65535, lo |-> 65535, frac |-> FALSE] => fnOut.value)

\* C24 happens: 4294967296 was validated and rejected.
C24_Witness ==
    /\ fnOut.done
    /\ fnIn.fn = "validateDestinationTag"
    /\ fnIn.tag = [hi |-> 65536, lo |-> 0, frac |-> FALSE]
    /\ ~fnOut.value

\* C25: xrpToDrops(dropsToXrp(d)) = d for every non-negative integer d.
C25_DropsRoundTrip ==
    (fnOut.done /\ fnIn.fn = "dropsRoundTrip") => fnOut.value = fnIn.drops


\* The helper returned '0' rather than a quotient.
IsZeroText(v) == v.text = "0"

\* C26: no pricing helper divides by zero: a zero gets (calculateQuality), a
\* zero bid (calculateSpread's percentage) and a zero denominator side
\* (calculatePrice: pays, or gets when inverted) each give "0".
C26_NoDivisionByZero ==
    fnOut.done =>
        /\ (fnIn.fn = "calculateQuality"
              => /\ (fnIn.gets.k = 0 => IsZeroText(fnOut.value))
                 /\ fnOut.value.den.k # 0)
        /\ (fnIn.fn = "calculateSpread"
              => /\ (fnIn.bid.k = 0 => IsZeroText(fnOut.value.percentage))
                 /\ fnOut.value.percentage.den.k # 0)
        /\ (fnIn.fn = "calculatePrice"
              => /\ ((~fnIn.invert /\ fnIn.pays.value.k = 0) => IsZeroText(fnOut.value))
                 /\ ((fnIn.invert /\ fnIn.gets.value.k = 0) => IsZeroText(fnOut.value))
                 /\ fnOut.value.den.k # 0)

\* C26 happens: calculateQuality was called with a zero gets and a non-zero
\* pays and returned "0".
C26_Witness ==
    /\ fnOut.done
    /\ fnIn.fn = "calculateQuality"
    /\ fnIn.gets.k = 0
    /\ fnIn.pays.k = 2
    /\ IsZeroText(fnOut.value)


\* C27: checkCompliance never propagates a transport failure: when the post
\* fails, the item pushes a result with the address passed in, status
\* 'unknown' and the fixed unverified fields, and execute goes on normally.
C27_ComplianceFailureAbsorbed ==
    [][(ephase = "awaitPost" /\ pc[Exec] = "postErr")
          => /\ Len(returnData') = Len(returnData) + 1
             /\ LET pushed == returnData'[Len(returnData')]
                IN /\ pushed.item = itemIndex
                   /\ pushed.json.kind = "result"
                   /\ pushed.json.address = ecfg.addresses[itemIndex]
                   /\ pushed.json.status = "unknown"
                   /\ pushed.json.kycLevel = "none"
                   /\ pushed.json.amlRisk = "unknown"
                   /\ pushed.json.jurisdiction = "unknown"
             /\ execError' = execError
             /\ ephase' \in {"loop", "returned", "finalDisconnect"}]_vars

\* C27 happens: with continueOnFail off the first check failed, the second
\* succeeded, and execute returned both results.
C27_Witness ==
    /\ ecfg.operation = "checkAddress"
    /\ ~ecfg.continueOnFail
    /\ ephase = "returned"
    /\ Len(returnData) = 2
    /\ returnData[1].json.lastChecked = "now"
    /\ returnData[1].json.status = "unknown"
    /\ returnData[1].json.address = ecfg.addresses[1]
    /\ returnData[2].json.lastChecked = "server"


\* C28: on the XRPL path the callback is registered only after the subscribe
\* request is confirmed: before that, and after a failed connect or
\* subscribe, no callback is registered and nothing has been forwarded; the
\* failure reaches the caller, and stop has not run, since the close function
\* is handed out only once start has completed.
C28_CallbackAfterConfirmation ==
    (IsXrplNetwork(tcfg.network) /\ tphase \in {"created", "subscribing", "startFailed"})
        => /\ ~onLedgerClosed
           /\ ~onTransaction
           /\ sink = <<>>
           /\ ~last.fwd
           /\ stopCalls = 0

\* C28 happens: the subscribe failed on an open connection, start was
\* rejected, and events occurred afterwards without being forwarded.
C28_Witness ==
    /\ IsXrplNetwork(tcfg.network)
    /\ tphase = "startFailed"
    /\ connOpen
    /\ nRaw = MaxEvents
    /\ sink = <<>>
    /\ ~onLedgerClosed
    /\ ~onTransaction


\* C29: a payment or escrow built with a valid destination tag t in
\* 0..4294967295, t = 0 included, carries DestinationTag = t in its payload;
\* the field is omitted only when no tag was supplied.
C29_DestinationTagCarried ==
    (wcall.op \in TaggedOps /\ wcall.tx.TransactionType # "none")
        => /\ ((wcall.tag.given /\ TagInRange(wcall.tag))
                 => wcall.tx.DestinationTag = wcall.tag)
           /\ (wcall.tx.DestinationTag = NoTag => ~wcall.tag.given)


\* C30: the connected flag is true exactly when the latest connect or
\* disconnect to complete was a successful connect, and once a disconnect has
\* completed no request is sent before the client has reconnected.
C30_ConnectedFlag ==
    /\ isConnected <=> (lastDone = "connect")
    /\ (lastDone = "disconnect") => \A t \in Tasks : pc[t] # "request"


====
